---- MODULE Spec2Model ----
(***************************************************************************)
(* Medical-Document-Summarization: src/app.py.                             *)
(*                                                                         *)
(* One run of the Streamlit script for one submitted document:             *)
(*   upload_document -> process_document (Textract call, text splitter)    *)
(*   -> generate_summary (one Bedrock call per chunk) -> display.          *)
(*                                                                         *)
(* Python strings are sequences of one-character strings; a Python value   *)
(* that may be None is a sequence of at most one element (None == << >>,   *)
(* a value v is << v >>).                                                  *)
(*                                                                         *)
(* The text splitter is langchain's RecursiveCharacterTextSplitter, which  *)
(* app.py configures and calls at lines 125-130.  Its operators below      *)
(* (_split_text_with_regex, _join_docs, _merge_splits, _split_text) follow *)
(* that library's implementation with the defaults app.py leaves in place  *)
(* (keep_separator=True, strip_whitespace=True, length_function=len,       *)
(* is_separator_regex=False).                                              *)
(***************************************************************************)
EXTENDS Integers, Sequences, FiniteSets, TLC

VARIABLES
    pc,             \* position of the script
    uploaded_file,  \* app.py:187  the widget's value: None or a file
    file_type,      \* app.py:192
    file_path,      \* app.py:193
    extracted_text, \* app.py:115, 117
    texts,          \* app.py:197  the chunks process_document returned
    summaries,      \* app.py:147
    summary,        \* app.py:202  what generate_summary returned
    ui,             \* every Streamlit output call of the run, in order
    calls           \* every Textract / splitter / Bedrock call, in order,
                    \* each with its argument and what it came back with

vars == << pc, uploaded_file, file_type, file_path, extracted_text,
           texts, summaries, summary, ui, calls >>

----------------------------------------------------------------------------
(* Bounds *)

\* chunk_size=4000 at app.py:126, scaled down so that texts longer than a
\* chunk can be enumerated.
chunk_size == 3

\* The longest text before its last newline that the splitter
\* specification draws.
MaxTextLen == chunk_size + 3

\* The most blocks in one Textract response.
MaxBlocks == 2

\* The characters texts are made of.
Alphabet == {"a", "\n", ".", " "}

----------------------------------------------------------------------------
(* Python values *)

None == << >>
Some(v) == << v >>

\* Truthy, testing "is not None" only.
Truthy_NotNone(opt) == opt # None

\* Truthiness of an optional string or list: None and the empty one are falsy.
Truthy(opt) == opt # None /\ opt[1] # << >>

\* str.strip() / str.isspace(): the whitespace characters of the alphabet.
Whitespace == {" ", "\n", "\t", "\r"}

RECURSIVE LStrip(_)
LStrip(s) ==
    IF s # << >> /\ Head(s) \in Whitespace THEN LStrip(Tail(s)) ELSE s

RECURSIVE RStrip(_)
RStrip(s) ==
    IF s # << >> /\ s[Len(s)] \in Whitespace
    THEN RStrip(SubSeq(s, 1, Len(s) - 1))
    ELSE s

Strip(s) == RStrip(LStrip(s))

\* sep.join(parts)
RECURSIVE Join(_, _)
Join(parts, sep) ==
    IF parts = << >> THEN << >>
    ELSE IF Len(parts) = 1 THEN parts[1]
    ELSE parts[1] \o sep \o Join(Tail(parts), sep)

\* All sequences over S of length at most n.
SeqsUpTo(S, n) == UNION { [1..k -> S] : k \in 0..n }

----------------------------------------------------------------------------
(* The text splitter: RecursiveCharacterTextSplitter(chunk_size,           *)
(* separators, chunk_overlap).split_text, app.py:125-130                   *)

\* separators without the character-level fallback at its end.
separators_NoFallback ==
    << <<"\n", "\n">>, <<"\n">>, <<".">>, <<"!">>, <<"?">>, <<",">>, <<" ">> >>

\* app.py:127
separators ==
    << <<"\n", "\n">>, <<"\n">>, <<".">>, <<"!">>, <<"?">>, <<",">>, <<" ">>, << >> >>

\* chunk_overlap as large as a chunk.
chunk_overlap_Whole == chunk_size

\* app.py:128
chunk_overlap == 0

\* re.search(re.escape(sep), text): the literal sep occurs in text.
Contains(t, s) ==
    \E i \in 1..(Len(t) - Len(s) + 1) : SubSeq(t, i, i + Len(s) - 1) = s

\* The first position at which the literal sep occurs in text.
FirstAt(t, s) ==
    CHOOSE i \in 1..(Len(t) - Len(s) + 1) :
        /\ SubSeq(t, i, i + Len(s) - 1) = s
        /\ \A j \in 1..(i - 1) : SubSeq(t, j, j + Len(s) - 1) # s

\* The pieces of text between the leftmost non-overlapping occurrences of a
\* non-empty literal sep: re.split without its separator items.
RECURSIVE Pieces(_, _)
Pieces(t, sep) ==
    IF ~Contains(t, sep) THEN << t >>
    ELSE LET i == FirstAt(t, sep)
         IN  << SubSeq(t, 1, i - 1) >>
                 \o Pieces(SubSeq(t, i + Len(sep), Len(t)), sep)

\* _split_text_with_regex(text, separator, keep_separator=True): each
\* separator stays at the start of the piece that follows it; a "" separator
\* splits into characters; empty pieces are dropped.
_split_text_with_regex(text, separator) ==
    LET p == Pieces(text, separator)
        splits ==
            IF separator # << >>
            THEN << p[1] >> \o [i \in 1..(Len(p) - 1) |-> separator \o p[i + 1]]
            ELSE [i \in 1..Len(text) |-> << text[i] >>]
    IN  SelectSeq(splits, LAMBDA x : x # << >>)

\* _join_docs(docs, separator): the joined text, stripped; << >> stands for
\* the None it returns when nothing is left.
_join_docs(docs, separator) == Strip(Join(docs, separator))

SepLen(current_doc, separator, least) ==
    IF Len(current_doc) > least THEN Len(separator) ELSE 0

\* The while loop of _merge_splits that drops pieces from the front of
\* current_doc once a chunk was emitted.
RECURSIVE PopWhile(_, _, _, _)
PopWhile(current_doc, total, len, separator) ==
    IF \/ total > chunk_overlap
       \/ /\ total + len + SepLen(current_doc, separator, 0) > chunk_size
          /\ total > 0
    THEN PopWhile(Tail(current_doc),
                  total - (Len(current_doc[1]) + SepLen(current_doc, separator, 1)),
                  len, separator)
    ELSE [current_doc |-> current_doc, total |-> total]

\* The for loop of _merge_splits from split k on.
RECURSIVE MergeLoop(_, _, _, _, _, _)
MergeLoop(splits, k, docs, current_doc, total, separator) ==
    IF k > Len(splits)
    THEN LET doc == _join_docs(current_doc, separator)
         IN  IF doc # << >> THEN Append(docs, doc) ELSE docs
    ELSE LET d == splits[k]
             len == Len(d)
             over == total + len + SepLen(current_doc, separator, 0) > chunk_size
             flush == over /\ Len(current_doc) > 0
             doc == _join_docs(current_doc, separator)
             docs1 == IF flush /\ doc # << >> THEN Append(docs, doc) ELSE docs
             popped == IF flush
                       THEN PopWhile(current_doc, total, len, separator)
                       ELSE [current_doc |-> current_doc, total |-> total]
             current1 == Append(popped.current_doc, d)
         IN  MergeLoop(splits, k + 1, docs1, current1,
                       popped.total + len + SepLen(current1, separator, 1),
                       separator)

\* _merge_splits(splits, separator)
_merge_splits(splits, separator) == MergeLoop(splits, 1, << >>, << >>, 0, separator)

\* The separator _split_text picks: the first of the list that is "" or
\* occurs in the text, with the separators after it; the last one when none does.
RECURSIVE PickSeparator(_, _, _)
PickSeparator(text, seps, i) ==
    IF i > Len(seps)
    THEN [separator |-> seps[Len(seps)], new_separators |-> << >>]
    ELSE IF seps[i] = << >>
    THEN [separator |-> << >>, new_separators |-> << >>]
    ELSE IF Contains(text, seps[i])
    THEN [separator |-> seps[i], new_separators |-> SubSeq(seps, i + 1, Len(seps))]
    ELSE PickSeparator(text, seps, i + 1)

\* _split_text(text, separators): pieces shorter than chunk_size are merged,
\* a longer one is split again with the separators that remain.
RECURSIVE _split_text(_, _)
RECURSIVE SplitLoop(_, _, _, _, _)
SplitLoop(splits, k, good_splits, final_chunks, new_separators) ==
    IF k > Len(splits)
    THEN IF good_splits # << >>
         THEN final_chunks \o _merge_splits(good_splits, << >>)
         ELSE final_chunks
    ELSE LET s == splits[k]
         IN  IF Len(s) < chunk_size
             THEN SplitLoop(splits, k + 1, Append(good_splits, s),
                            final_chunks, new_separators)
             ELSE LET merged == IF good_splits # << >>
                                THEN final_chunks \o _merge_splits(good_splits, << >>)
                                ELSE final_chunks
                      other == IF new_separators = << >>
                               THEN << s >>
                               ELSE _split_text(s, new_separators)
                  IN  SplitLoop(splits, k + 1, << >>, merged \o other, new_separators)

_split_text(text, seps) ==
    LET pick == PickSeparator(text, seps, 1)
    IN  SplitLoop(_split_text_with_regex(text, pick.separator), 1,
                  << >>, << >>, pick.new_separators)

\* split_text(text)
split_text(text) == _split_text(text, separators)

----------------------------------------------------------------------------
(* Streamlit output calls and the calls to the collaborators *)

Err(t) == [kind |-> "error", text |-> t]          \* st.error(t)
Write(t) == [kind |-> "write", text |-> t]        \* st.write(t), progress text
Subheader(t) == [kind |-> "subheader", text |-> t]
ShowSummary(t) == [kind |-> "summary", text |-> t]  \* st.write(summary), app.py:206
Info(t) == [kind |-> "info", text |-> t]

Call(op, arg, response) == [op |-> op, arg |-> arg, response |-> response]

----------------------------------------------------------------------------
(* What the collaborators can deliver *)

\* File names as their parts between the dots: <<"scan", "pdf">> is scan.pdf.
\* The type list of the widget (app.py:188) is the widget's business; the
\* script reads the type off the name again and process_document tests it,
\* so names of every kind are drawn.
FileNames ==
    { <<"scan", "pdf">>, <<"scan", "v2", "JPG">>,
      <<"scan", "jpeg">>, <<"scan", "tiff">>, <<"scan", "docx">>,
      <<"scan">>, <<"scan", "">> }

\* str.lower() on the name parts in use.
Lower(t) ==
    CASE t = "JPG" -> "jpg"
      [] OTHER -> t

\* The lines a Textract LINE block can carry in the pipeline specification.
LongLine == [i \in 1..(chunk_size + 1) |-> "a"]
LineTexts == { << >>, <<" ">>, <<"a">>, <<"a", ".", " ", "a">>, LongLine }

Blocks ==
    { [BlockType |-> "LINE", Text |-> Some(t)] : t \in LineTexts }
        \cup { [BlockType |-> "WORD", Text |-> Some(<<"a">>)],
               [BlockType |-> "PAGE", Text |-> None] }

\* A Textract call raises botocore's ClientError, raises something else, or
\* returns a response with its "Blocks".
OcrFailures ==
    { [kind |-> "ClientError", Blocks |-> << >>],
      [kind |-> "Exception", Blocks |-> << >>] }
OcrResponses ==
    OcrFailures \cup { [kind |-> "ok", Blocks |-> b] : b \in SeqsUpTo(Blocks, MaxBlocks) }

\* A content part: with a "text", or without one (None).
TextPart(t) == [type |-> "text", text |-> Some(t)]
OtherPart == [type |-> "tool_use", text |-> None]

\* The "content" lists of the model's answers.
Contents ==
    { << >>, << OtherPart >>, << TextPart(<< >>) >>, << TextPart(<<"S", "1">>) >>,
      << TextPart(<<"S", "2">>), TextPart(<<"S", "1">>) >> }

\* A Bedrock call raises ClientError, raises something else (transport, a
\* body that is not JSON), or returns a body whose "content" is absent (None)
\* or a list of parts.
LlmFailures ==
    { [kind |-> "ClientError", content |-> None],
      [kind |-> "Exception", content |-> None] }
LlmResponses ==
    LlmFailures
        \cup { [kind |-> "ok", content |-> None] }
        \cup { [kind |-> "ok", content |-> Some(c)] : c \in Contents }

----------------------------------------------------------------------------
(* upload_document, app.py:36-64 *)

\* exists: a file of that name is already in the folder; io_ok: creating the
\* folder and writing the file raise nothing.
upload_document(file, exists, io_ok) ==
    IF file = None
    THEN [ret |-> None, ui |-> << >>]
    ELSE IF io_ok
    THEN [ret |-> Some([folder |-> "./uploaded_files",
                        name |-> file[1].name,
                        unique_id |-> exists]),
          ui |-> << >>]
    ELSE [ret |-> None, ui |-> << Err("Error uploading file") >>]

----------------------------------------------------------------------------
(* process_document, app.py:68-140 *)

\* The loop of app.py:78-81 from block k on.
RECURSIVE ImageLines(_, _, _)
ImageLines(blocks, k, text) ==
    IF k > Len(blocks) THEN text
    ELSE ImageLines(blocks, k + 1,
                    IF blocks[k].BlockType = "LINE"
                    THEN text \o blocks[k].Text[1] \o <<"\n">>
                    ELSE text)

\* app.py:72-89
extract_text_from_image(response) ==
    CASE response.kind = "ClientError" ->
            [ret |-> None, ui |-> << Err("Amazon Textract error") >>]
      [] response.kind = "Exception" ->
            [ret |-> None, ui |-> << Err("Error extracting text") >>]
      [] OTHER ->
            [ret |-> Some(ImageLines(response.Blocks, 1, << >>)), ui |-> << >>]

\* The loop of app.py:99-102 from block k on.
RECURSIVE PdfLines(_, _, _)
PdfLines(blocks, k, text) ==
    IF k > Len(blocks) THEN text
    ELSE PdfLines(blocks, k + 1,
                  IF blocks[k].BlockType = "LINE"
                  THEN text \o blocks[k].Text[1] \o <<"\n">>
                  ELSE text)

\* extract_text_from_pdf, putting the newline between the lines only.
extract_text_from_pdf_Joined(response) ==
    LET lines == SelectSeq(response.Blocks, LAMBDA b : b.BlockType = "LINE")
    IN  CASE response.kind = "ClientError" ->
                [ret |-> None, ui |-> << Err("Amazon Textract error") >>]
          [] response.kind = "Exception" ->
                [ret |-> None, ui |-> << Err("Error extracting text from PDF") >>]
          [] OTHER ->
                [ret |-> Some(Join([i \in 1..Len(lines) |-> lines[i].Text[1]], <<"\n">>)),
                 ui |-> << >>]

\* app.py:92-110
extract_text_from_pdf(response) ==
    CASE response.kind = "ClientError" ->
            [ret |-> None, ui |-> << Err("Amazon Textract error") >>]
      [] response.kind = "Exception" ->
            [ret |-> None, ui |-> << Err("Error extracting text from PDF") >>]
      [] OTHER ->
            [ret |-> Some(PdfLines(response.Blocks, 1, << >>)), ui |-> << >>]

\* app.py:113: both the path and the type are truthy.
ValidArguments(path, type) == path # None /\ type # ""

\* OcrOperation, taking every type that is not pdf for an image.
OcrOperation_ImageDefault(type) ==
    IF type = "pdf" THEN Some("analyze_document") ELSE Some("detect_document_text")

\* app.py:114-120: the Textract operation the file type selects, None for a
\* type that is not supported.
OcrOperation(type) ==
    IF type \in {"jpg", "jpeg", "tiff"} THEN Some("detect_document_text")
    ELSE IF type = "pdf" THEN Some("analyze_document")
    ELSE None

\* ProcessExtract, going on to the splitter whenever a text came back, empty
\* or not.
ProcessExtract_NotNone(path, type, response) ==
    IF ~ValidArguments(path, type)
    THEN [call |-> None, text |-> None, go |-> FALSE,
          ui |-> << Err("Invalid file path or file type.") >>]
    ELSE IF type \notin {"jpg", "jpeg", "tiff", "pdf"}
    THEN [call |-> None, text |-> None, go |-> FALSE,
          ui |-> << Err("Unsupported file format.") >>]
    ELSE LET op == IF type = "pdf" THEN "analyze_document" ELSE "detect_document_text"
             r == IF type = "pdf"
                  THEN extract_text_from_pdf(response)
                  ELSE extract_text_from_image(response)
         IN  IF r.ret # None
             THEN [call |-> Some(op), text |-> r.ret, go |-> TRUE, ui |-> r.ui]
             ELSE [call |-> Some(op), text |-> r.ret, go |-> FALSE,
                   ui |-> r.ui \o << Err("Failed to extract text from the document.") >>]

\* app.py:113-122, 135-140: process_document up to the test of the extracted
\* text.  response is what the Textract call, when one is made, comes back with.
\*   call: the Textract operation called, or None
\*   text: extracted_text, or None when no extraction ran
\*   go:   the branch of app.py:123 is taken, the splitter is next
ProcessExtract(path, type, response) ==
    IF ~ValidArguments(path, type)
    THEN [call |-> None, text |-> None, go |-> FALSE,
          ui |-> << Err("Invalid file path or file type.") >>]
    ELSE IF OcrOperation(type) = None
    THEN [call |-> None, text |-> None, go |-> FALSE,
          ui |-> << Err("Unsupported file format.") >>]
    ELSE LET r == IF OcrOperation(type) = Some("detect_document_text")
                  THEN extract_text_from_image(response)
                  ELSE extract_text_from_pdf(response)
         IN  IF Truthy(r.ret)
             THEN [call |-> OcrOperation(type), text |-> r.ret, go |-> TRUE,
                   ui |-> r.ui]
             ELSE [call |-> OcrOperation(type), text |-> r.ret, go |-> FALSE,
                   ui |-> r.ui \o << Err("Failed to extract text from the document.") >>]

\* app.py:124-134: the splitter runs, or raises.
ProcessSplit(text, raises) ==
    IF raises
    THEN [ret |-> << >>, ui |-> << Err("Error splitting text into chunks") >>]
    ELSE [ret |-> split_text(text), ui |-> << >>]

----------------------------------------------------------------------------
(* generate_summary, app.py:144-180 *)

\* app.py:164-168 for one response: the text appended to summaries, or None
\* when the call or the reading of its body raises.  A body without "content"
\* gives the default string, whose first character has no "text"; an empty
\* list has no first part; a part may have no "text".
FirstText(response) ==
    IF response.kind # "ok" THEN None
    ELSE IF response.content = None THEN None
    ELSE IF response.content[1] = << >> THEN None
    ELSE response.content[1][1].text

\* app.py:169-175: what is reported when the call for a chunk fails.
InvokeError(response) ==
    IF response.kind = "ClientError"
    THEN Err("Amazon Bedrock error")
    ELSE Err("Error invoking the Claude model")

\* FinalSummary, joining with nothing between the summaries.
FinalSummary_NoSpace(sums) == Join(sums, << >>)

\* app.py:177
FinalSummary(sums) == Join(sums, <<" ">>)

\* generate_summary, returning what was collected when a call fails.
generate_summary_Partial(sums, n, response) ==
    LET text == FirstText(response)
        new == Append(sums, text[1])
    IN  IF text = None
        THEN [done |-> TRUE, summaries |-> sums,
              ret |-> Some(Join(sums, <<" ">>)),
              ui |-> << InvokeError(response) >>]
        ELSE IF Len(new) = n
        THEN [done |-> TRUE, summaries |-> new, ret |-> Some(Join(new, <<" ">>)),
              ui |-> << >>]
        ELSE [done |-> FALSE, summaries |-> new, ret |-> None, ui |-> << >>]

\* app.py:148-177 for one chunk: the call came back with response, sums are
\* the summaries so far and n the number of chunks.
\*   done: generate_summary returns, with ret; otherwise the loop goes on
generate_summary(sums, n, response) ==
    LET text == FirstText(response)
        new == Append(sums, text[1])
    IN  IF text = None
        THEN [done |-> TRUE, summaries |-> sums, ret |-> None,
              ui |-> << InvokeError(response) >>]
        ELSE IF Len(new) = n
        THEN [done |-> TRUE, summaries |-> new, ret |-> Some(FinalSummary(new)),
              ui |-> << >>]
        ELSE [done |-> FALSE, summaries |-> new, ret |-> None, ui |-> << >>]

\* app.py:204-208: what the script shows for what generate_summary returned.
Display(ret) ==
    IF Truthy(ret)
    THEN << Subheader("Generated Summary"), ShowSummary(ret[1]) >>
    ELSE << Err("Failed to generate summary.") >>

----------------------------------------------------------------------------
(* The script, app.py:184-212 *)

Init ==
    /\ pc = "start"
    /\ uploaded_file = None
    /\ file_type = None
    /\ file_path = None
    /\ extracted_text = None
    /\ texts = << >>
    /\ summaries = << >>
    /\ summary = None
    /\ ui = << >>
    /\ calls = << >>

\* app.py:190, 211-212: no file in the widget.
NoFile ==
    /\ pc = "start"
    /\ ui' = Append(ui, Info("Please upload a medical document to get started."))
    /\ pc' = "end"
    /\ UNCHANGED << uploaded_file, file_type, file_path, extracted_text, texts,
                    summaries, summary, calls >>

\* app.py:190-196, 209-210: a file was submitted; its type is read off its
\* name and upload_document stores it.
Submit ==
    /\ pc = "start"
    /\ \E name \in FileNames, exists \in BOOLEAN, io_ok \in BOOLEAN :
          LET file == Some([name |-> name])
              up == upload_document(file, exists, io_ok)
          IN  /\ uploaded_file' = file
              /\ file_type' = Some(Lower(name[Len(name)]))
              /\ file_path' = up.ret
              /\ IF up.ret # None
                 THEN /\ ui' = ui \o up.ui \o << Write("Processing document") >>
                      /\ pc' = "process"
                 ELSE /\ ui' = ui \o up.ui \o << Err("Failed to upload the document.") >>
                      /\ pc' = "end"
    /\ UNCHANGED << extracted_text, texts, summaries, summary, calls >>

\* app.py:197 with 113-122, 135-140: process_document up to the splitter;
\* when it returns here the list is empty and the script ends (app.py:199).
Extract ==
    /\ pc = "process"
    /\ \E response \in OcrResponses :
          LET r == ProcessExtract(file_path, file_type[1], response)
          IN  /\ calls' = IF r.call = None THEN calls
                          ELSE Append(calls, Call(r.call[1], file_path[1], response))
              /\ extracted_text' = r.text
              /\ ui' = ui \o r.ui
              /\ pc' = IF r.go THEN "split" ELSE "end"
    /\ texts' = << >>
    /\ UNCHANGED << uploaded_file, file_type, file_path, summaries, summary >>

\* app.py:124-134 and 199-202: the splitter, the return of process_document
\* and the script's test of the chunks.
Split ==
    /\ pc = "split"
    /\ \E raises \in BOOLEAN :
          LET r == ProcessSplit(extracted_text[1], raises)
          IN  /\ calls' = Append(calls, Call("split_text", extracted_text[1],
                                              IF raises THEN "Exception" ELSE "ok"))
              /\ texts' = r.ret
              /\ IF r.ret # << >>
                 THEN /\ ui' = ui \o r.ui \o << Write("Generating summary...") >>
                      /\ pc' = "summarize"
                 ELSE /\ ui' = ui \o r.ui
                      /\ pc' = "end"
    /\ summaries' = << >>
    /\ UNCHANGED << uploaded_file, file_type, file_path, extracted_text, summary >>

\* app.py:148-177 for the next chunk, and 204-208 once generate_summary
\* returns: after a failed call, or after the last chunk.
Invoke ==
    /\ pc = "summarize"
    /\ \E response \in LlmResponses :
          LET chunk == texts[Len(summaries) + 1]
              r == generate_summary(summaries, Len(texts), response)
          IN  /\ calls' = Append(calls, Call("invoke_model", chunk, response))
              /\ summaries' = r.summaries
              /\ summary' = r.ret
              /\ ui' = IF r.done THEN ui \o r.ui \o Display(r.ret) ELSE ui
              /\ pc' = IF r.done THEN "end" ELSE "summarize"
    /\ UNCHANGED << uploaded_file, file_type, file_path, extracted_text, texts >>

Next == NoFile \/ Submit \/ Extract \/ Split \/ Invoke

Spec == Init /\ [][Next]_vars

----------------------------------------------------------------------------
(* The splitter on every extracted text.  An extracted text is lines, each *)
(* followed by a newline (app.py:78-81, 99-102), so it is any text that    *)
(* ends with a newline; the script stands at app.py:123 with that text,    *)
(* read from a PDF whose blocks are its lines.                             *)

\* Two full chunks and one character more, with no separator in them.
Unbroken == [i \in 1..(2 * chunk_size + 1) |-> "a"]

TextBlocks(body) ==
    LET lines == Pieces(body, <<"\n">>)
    IN  [i \in 1..Len(lines) |-> [BlockType |-> "LINE", Text |-> Some(lines[i])]]

SplitInit ==
    \E body \in SeqsUpTo(Alphabet, MaxTextLen) \cup { Unbroken } :
        LET file == Some([name |-> <<"scan", "pdf">>])
            path == upload_document(file, FALSE, TRUE).ret
            response == [kind |-> "ok", Blocks |-> TextBlocks(body)]
            r == ProcessExtract(path, "pdf", response)
        IN  /\ pc = "split"
            /\ uploaded_file = file
            /\ file_type = Some("pdf")
            /\ file_path = path
            /\ extracted_text = r.text
            /\ texts = << >>
            /\ summaries = << >>
            /\ summary = None
            /\ ui = << Write("Processing document") >>
            /\ calls = << Call(r.call[1], path[1], response) >>

SplitNext == Split

SplitSpec == SplitInit /\ [][SplitNext]_vars

----------------------------------------------------------------------------
(* What the properties read off a state *)

Errors == SelectSeq(ui, LAMBDA m : m.kind = "error")
Shown == SelectSeq(ui, LAMBDA m : m.kind = "summary")

OcrOps == {"detect_document_text", "analyze_document"}
OcrCalls == SelectSeq(calls, LAMBDA c : c.op \in OcrOps)
SplitCalls == SelectSeq(calls, LAMBDA c : c.op = "split_text")
InvokeCalls == SelectSeq(calls, LAMBDA c : c.op = "invoke_model")

\* The generation request came back with a non-empty list of content parts
\* whose first part has a text.
Generated(c) ==
    /\ c.response.kind = "ok"
    /\ c.response.content # None
    /\ c.response.content[1] # << >>
    /\ c.response.content[1][1].text # None

\* The run is over and the generation request of every chunk succeeded.
AllGenerated ==
    /\ pc = "end"
    /\ texts # << >>
    /\ Len(InvokeCalls) = Len(texts)
    /\ \A i \in 1..Len(InvokeCalls) : Generated(InvokeCalls[i])

SupportedTypes == {"pdf", "tiff", "jpg", "jpeg"}

----------------------------------------------------------------------------
(* C1 *)

\* C1: every run started by a submitted document ends with exactly one
\* terminal message: the final summary or one error, counting every st.error
\* call and the display of the summary.
C1_ExactlyOneTerminalMessage ==
    (pc = "end" /\ uploaded_file # None) => Len(Errors) + Len(Shown) = 1

----------------------------------------------------------------------------
(* C2 *)

\* C2: when the generation request of some chunk k fails, generate_summary
\* returns None and no summary is displayed, whatever chunks 1..k-1 gave;
\* the summaries collected so far are not joined into a result.
C2_AllOrNothing ==
    (\E j \in 1..Len(InvokeCalls) : ~Generated(InvokeCalls[j]))
        => /\ pc = "end"
           /\ summary = None
           /\ Shown = << >>

\* Chunk 1 was summarized to a non-empty text and the request of chunk 2 failed.
C2_Witness ==
    /\ Len(InvokeCalls) = 2
    /\ Generated(InvokeCalls[1])
    /\ summaries = << <<"S", "1">> >>
    /\ ~Generated(InvokeCalls[2])
    /\ pc = "end"

----------------------------------------------------------------------------
(* C3 *)

\* Where summary i starts in the space-joined text, less one.
RECURSIVE Offset(_, _)
Offset(sums, i) ==
    IF i = 1 THEN 0 ELSE Offset(sums, i - 1) + Len(sums[i - 1]) + 1

\* f is the texts of sums in order, with one space between neighbours.
SpaceJoined(f, sums) ==
    LET n == Len(sums)
    IN  /\ Len(f) = Offset(sums, n) + Len(sums[n])
        /\ \A i \in 1..n :
              /\ SubSeq(f, Offset(sums, i) + 1, Offset(sums, i) + Len(sums[i])) = sums[i]
              /\ i < n => f[Offset(sums, i) + Len(sums[i]) + 1] = " "

\* C3: when the generation succeeds for every one of the N chunks, N
\* summaries were collected, summary i is the text of the first content part
\* returned for chunk i, and generate_summary returns them joined by single
\* spaces in chunk order ("S1", "S2" give "S1 S2").
C3_OrderAndJoin ==
    AllGenerated
        => /\ Len(summaries) = Len(texts)
           /\ \A i \in 1..Len(texts) :
                 /\ InvokeCalls[i].arg = texts[i]
                 /\ summaries[i] = InvokeCalls[i].response.content[1][1].text[1]
           /\ summary # None
           /\ SpaceJoined(summary[1], summaries)
           /\ summaries = << <<"S", "1">>, <<"S", "2">> >>
                 => summary = Some(<<"S", "1", " ", "S", "2">>)

\* Two chunks, summarized to "S1" and to "S2" (the latter the first of two parts).
C3_Witness ==
    /\ AllGenerated
    /\ summaries = << <<"S", "1">>, <<"S", "2">> >>
    /\ Len(InvokeCalls[2].response.content[1]) = 2
    /\ Len(Shown) = 1

----------------------------------------------------------------------------
(* C4 *)

\* The calls made so far are a beginning of: one Textract call on the stored
\* file, one splitter call on its non-empty text, one generation call per
\* chunk in chunk order, each made only after everything before it succeeded;
\* an error ends the run and a summary is shown only after every chunk.
C4_Order ==
    /\ Len(OcrCalls) <= 1
    /\ Len(SplitCalls) <= 1
    /\ pc \in {"start", "process"} => calls = << >>
    /\ pc = "split" => Len(calls) = 1
    /\ pc = "summarize" => Len(calls) >= 2 /\ Len(InvokeCalls) < Len(texts)
    /\ calls # << >> =>
          /\ calls[1].op \in OcrOps
          /\ file_path # None
          /\ calls[1].arg = file_path[1]
    /\ \A j \in 1..Len(calls) :
          /\ calls[j].op \in OcrOps => j = 1
          /\ calls[j].op = "split_text" =>
                /\ j = 2
                /\ calls[1].response.kind = "ok"
                /\ calls[j].arg # << >>
                /\ extracted_text = Some(calls[j].arg)
          /\ calls[j].op = "invoke_model" =>
                /\ j >= 3
                /\ calls[2].op = "split_text"
                /\ calls[2].response = "ok"
                /\ j - 2 <= Len(texts)
                /\ calls[j].arg = texts[j - 2]
                /\ \A k \in 3..(j - 1) : Generated(calls[k])
    /\ Errors # << >> => pc = "end"
    /\ Shown # << >> => AllGenerated

\* A step moves the script to the next stage or to its end, and makes no
\* call once an error was reported or the run is over.
C4_Step ==
    /\ pc' # pc =>
          \/ << pc, pc' >> \in { <<"start", "process">>, <<"process", "split">>,
                                 <<"split", "summarize">> }
          \/ pc' = "end"
    /\ (Errors # << >> \/ pc = "end") => calls' = calls
    /\ \E n \in 0..1 : Len(calls') = Len(calls) + n

\* C4: the stages of a run occur only in the order Uploading, Extracting,
\* Chunking, Summarizing, Done, each entered at most once and only after
\* the one before it succeeded; after a failure no OCR, splitter or
\* generation call is made.
C4_StageOrdering == [](C4_Order) /\ [][C4_Step]_vars

\* A run that went through every stage, with two generation calls.
C4_Witness ==
    /\ pc = "end"
    /\ Len(OcrCalls) = 1
    /\ Len(SplitCalls) = 1
    /\ Len(InvokeCalls) = 2
    /\ Shown # << >>

----------------------------------------------------------------------------
(* C5 *)

\* process_document has returned for a file type that is not supported.
UnsupportedDone ==
    /\ pc \notin {"start", "process"}
    /\ file_path # None
    /\ file_type[1] \notin SupportedTypes

\* C5 as claimed: for every file type outside {pdf, tiff, jpg, jpeg},
\* process_document reports the unsupported-format error and returns no
\* chunks, with no OCR, splitter or generation call.
C5_UnsupportedFormat ==
    UnsupportedDone
        => /\ Errors = << Err("Unsupported file format.") >>
           /\ texts = << >>
           /\ calls = << >>
           /\ pc = "end"

\* C5 as amended: for every non-empty file type outside {pdf, tiff, jpg,
\* jpeg} process_document reports the unsupported-format error, and for the
\* empty type (a name that ends with a dot) the invalid-file-type error; in
\* both cases it returns no chunks and no OCR, splitter or generation call
\* is made.
C5_UnsupportedOrEmptyType ==
    UnsupportedDone
        => /\ Errors = IF file_type[1] = ""
                       THEN << Err("Invalid file path or file type.") >>
                       ELSE << Err("Unsupported file format.") >>
           /\ texts = << >>
           /\ calls = << >>
           /\ Shown = << >>
           /\ pc = "end"

\* scan.docx was submitted and process_document has returned.
C5_Witness ==
    /\ UnsupportedDone
    /\ file_type = Some("docx")
    /\ Errors # << >>

----------------------------------------------------------------------------
(* C6 *)

\* The Textract call failed or returned no block of type LINE.
NoLines(response) ==
    \/ response.kind # "ok"
    \/ \A i \in 1..Len(response.Blocks) : response.Blocks[i].BlockType # "LINE"

\* C6: when the OCR call fails or returns no LINE block, the extracted text
\* is absent or empty, the run ends with the extraction-failed error, and
\* neither the splitter nor the model is called and no summary is produced.
C6_EmptyExtractionFails ==
    (OcrCalls # << >> /\ NoLines(OcrCalls[1].response))
        => /\ extracted_text \in {None, Some(<< >>)}
           /\ Errors # << >>
           /\ Errors[Len(Errors)] = Err("Failed to extract text from the document.")
           /\ SplitCalls = << >>
           /\ InvokeCalls = << >>
           /\ texts = << >>
           /\ summary = None
           /\ Shown = << >>
           /\ pc = "end"

\* The OCR call returned zero blocks.
C6_Witness ==
    /\ OcrCalls # << >>
    /\ OcrCalls[1].response = [kind |-> "ok", Blocks |-> << >>]
    /\ extracted_text = Some(<< >>)
    /\ pc = "end"

----------------------------------------------------------------------------
(* C9 *)

\* The texts of the LINE blocks in the order returned, each followed by one
\* newline.
LinesOf(blocks) ==
    LET lines == SelectSeq(blocks, LAMBDA b : b.BlockType = "LINE")
    IN  Join([i \in 1..Len(lines) |-> lines[i].Text[1] \o <<"\n">>], << >>)

\* C9: in both extraction modes the extracted text is the texts of the LINE
\* blocks in the order returned, each followed by exactly one newline;
\* other blocks contribute nothing, so both modes give the same text for
\* the same blocks.
C9_TextReconstruction ==
    \A i \in 1..Len(OcrCalls) :
        OcrCalls[i].response.kind = "ok"
            => extracted_text = Some(LinesOf(OcrCalls[i].response.Blocks))

\* A PDF whose blocks are a line, then a block that is not a line.
C9_Witness ==
    /\ OcrCalls # << >>
    /\ OcrCalls[1].op = "analyze_document"
    /\ OcrCalls[1].response.kind = "ok"
    /\ Len(OcrCalls[1].response.Blocks) = 2
    /\ OcrCalls[1].response.Blocks[1].BlockType = "LINE"
    /\ OcrCalls[1].response.Blocks[2].BlockType # "LINE"
    /\ extracted_text # None

----------------------------------------------------------------------------
(* C10 *)

\* C10: when the upload succeeds, the text is not empty, there is at least
\* one chunk and the generation of every chunk succeeds with a non-empty
\* list of content parts, the run ends with the final summary displayed and
\* no error, whatever the summaries are.
C10_CompletionOnSuccess ==
    AllGenerated => Len(Shown) = 1 /\ Errors = << >>

----------------------------------------------------------------------------
(* C7 *)

\* The splitter ran on the extracted text and raised nothing.
SplitDone == SplitCalls # << >> /\ SplitCalls[1].response = "ok"

\* C7: every chunk process_document returns is at most chunk_size long; a
\* line of two chunk sizes and one character with no separator in it gives
\* chunks of sizes chunk_size, chunk_size and 1.
C7_ChunkSizeBound ==
    SplitDone
        => /\ \A i \in 1..Len(texts) : Len(texts[i]) <= chunk_size
           /\ SplitCalls[1].arg = Unbroken \o <<"\n">>
                 => [i \in 1..Len(texts) |-> Len(texts[i])]
                        = << chunk_size, chunk_size, 1 >>

\* The unbroken line was split into its three chunks.
C7_Witness ==
    /\ SplitDone
    /\ SplitCalls[1].arg = Unbroken \o <<"\n">>
    /\ Len(texts) = 3
    /\ Len(texts[1]) = chunk_size

----------------------------------------------------------------------------
(* C8 *)

StartsWith(t, s) == Len(s) <= Len(t) /\ SubSeq(t, 1, Len(s)) = s

\* text is the chunks in order with nothing but whitespace before, between
\* and after them.
RECURSIVE OnlyWhitespaceDropped(_, _)
OnlyWhitespaceDropped(text, chunks) ==
    IF chunks = << >>
    THEN \A i \in 1..Len(text) : text[i] \in Whitespace
    ELSE \E k \in 0..Len(text) :
            /\ \A i \in 1..k : text[i] \in Whitespace
            /\ StartsWith(SubSeq(text, k + 1, Len(text)), chunks[1])
            /\ OnlyWhitespaceDropped(
                   SubSeq(text, k + 1 + Len(chunks[1]), Len(text)), Tail(chunks))

\* C8 as claimed: the chunks concatenated in order are the extracted text.
C8_Lossless ==
    SplitDone => Join(texts, << >>) = SplitCalls[1].arg

\* C8 as amended: the chunks concatenated in order are the extracted text
\* less the whitespace at the start and the end of each chunk, which the
\* splitter strips: the text is the chunks in order with only whitespace
\* before, between and after them, so nothing else is dropped and nothing is
\* duplicated across a chunk boundary.
C8_LosslessUpToWhitespace ==
    SplitDone => OnlyWhitespaceDropped(SplitCalls[1].arg, texts)

\* A text of several chunks that lost whitespace between two of them.
C8_Witness ==
    /\ SplitDone
    /\ Len(texts) >= 2
    /\ Len(Join(texts, << >>)) + 2 <= Len(SplitCalls[1].arg)

====
